---- MODULE Spec2Model ----
(***************************************************************************)
(* Model of mdtable (src/src/lib.rs): Alignment, Row, FormatRow, Table and *)
(* Builder.                                                                *)
(*                                                                         *)
(* A text (&str) is a sequence of characters; a character is a one-element *)
(* atom (a TLA+ string naming it).  str::len counts UTF-8 bytes, while the *)
(* padding of {:<w$} / {:^w$} / {:>w$} counts characters, so the model     *)
(* keeps both measures apart (Utf8Len, len, chars_count).                  *)
(* Option<T> is a sequence of length 0 (None) or 1 (Some).                 *)
(***************************************************************************)
EXTENDS Integers, Sequences, FiniteSets, TLC

VARIABLES WIDTH, header, alignments, content, widths, aligned, table, pc, call, arg, out

vars == <<WIDTH, header, alignments, content, widths, aligned, table, pc, call, arg, out>>

(* ---------------------------- bounds ----------------------------------- *)

MaxRows == 2
MaxCellWidth == 5
MaxTextLen == 3
MaxMarkerLen == 5

(* the instantiations of the const generic WIDTH that are explored *)
WidthChoices == {1, 2}

(* ---------------------------- texts ------------------------------------ *)

\* U+00E9 stands for one character whose UTF-8 encoding has two bytes
TwoByteChars == {"U+00E9"}

tName == <<"N", "a", "m", "e">>
tAge == <<"A", "g", "e">>
tAlice == <<"A", "l", "i", "c", "e">>
tBo == <<"B", "o">>
t30 == <<"3", "0">>
t7 == <<"7">>
tAccent == <<"U+00E9">>
tBogus == <<"b", "o", "g", "u", "s">>

HeaderLabels == {tName}
HeaderTexts == {tAge, tAccent}
RowLabels == {tAlice, tBo}
CellTexts == {t30, t7}

Utf8Len(c) == IF c \in TwoByteChars THEN 2 ELSE 1

RECURSIVE len(_)
len(s) == IF s = <<>> THEN 0 ELSE Utf8Len(Head(s)) + len(Tail(s))

chars_count(s) == Len(s)

RECURSIVE SeqsUpTo(_, _)
SeqsUpTo(S, n) ==
    IF n = 0 THEN {<<>>}
    ELSE LET shorter == SeqsUpTo(S, n - 1)
         IN shorter \cup {Append(s, c) : s \in shorter, c \in S}

Spaces(n) == [i \in 1..n |-> " "]

(* ---------------------------- Option ----------------------------------- *)

None == <<>>
Some(x) == <<x>>
unwrap(o) == o[1]

(* ---------------------------- Alignment -------------------------------- *)

Alignment == {"Left", "Center", "Right"}

Ok(x) == <<"Ok", x>>
Err == <<"Err">>

\* from_str without the ":---" alias
from_strNoAlias(s) ==
    CASE s = <<"-", "-", "-">> -> Ok("Left")
      [] s = <<":", "-", "-", "-", ":">> -> Ok("Center")
      [] s = <<"-", "-", "-", ":">> -> Ok("Right")
      [] OTHER -> Err

from_str(s) ==
    CASE s = <<"-", "-", "-">> \/ s = <<":", "-", "-", "-">> -> Ok("Left")
      [] s = <<":", "-", "-", "-", ":">> -> Ok("Center")
      [] s = <<"-", "-", "-", ":">> -> Ok("Right")
      [] OTHER -> Err

as_ref(a) ==
    CASE a = "Left" -> <<"-", "-", "-">>
      [] a = "Center" -> <<":", "-", "-", "-", ":">>
      [] a = "Right" -> <<"-", "-", "-", ":">>

\* AsRef<str>::as_ref of a cell of type T: "Alignment" or "str" (a text)
str_ref(T, x) == IF T = "Alignment" THEN as_ref(x) ELSE x

\* default_row with the data columns Left as well
default_rowAllLeft(n) == [header |-> "Left", content |-> [i \in 1..n |-> "Left"]]

default_row(n) == [header |-> "Left", content |-> [i \in 1..n |-> "Right"]]

(* ---------------------------- Row -------------------------------------- *)

Rows(n, F, R) == [header : F, content : [1..n -> R]]

RowWidths(row, T) ==
    [header |-> len(str_ref(T, row.header)),
     content |-> [i \in DOMAIN row.content |-> len(str_ref(T, row.content[i]))]]

NatMax(a, b) == IF a >= b THEN a ELSE b

\* Row::max keeping the right-hand row
RowMaxOverwrite(lhs, rhs) == rhs

RowMax(lhs, rhs) ==
    [header |-> NatMax(lhs.header, rhs.header),
     content |-> [i \in DOMAIN lhs.content |-> NatMax(lhs.content[i], rhs.content[i])]]

(* ---------------------------- FormatRow -------------------------------- *)

Pad(data, pre, post) == Spaces(pre) \o data \o Spaces(post)

\* cell that cuts the text down to the width
cellTruncating(data, width, align) ==
    LET n == chars_count(data)
    IN IF n >= width THEN SubSeq(data, 1, width)
       ELSE CASE align = "Left" -> Pad(data, 0, width - n)
              [] align = "Center" -> Pad(data, (width - n) \div 2, (width - n + 1) \div 2)
              [] align = "Right" -> Pad(data, width - n, 0)

\* cell whose Center puts the odd space in front
cellCenterLeading(data, width, align) ==
    LET n == chars_count(data)
    IN IF n >= width THEN data
       ELSE CASE align = "Left" -> Pad(data, 0, width - n)
              [] align = "Center" -> Pad(data, (width - n + 1) \div 2, (width - n) \div 2)
              [] align = "Right" -> Pad(data, width - n, 0)

\* cell whose Right pads like Left
cellRightAsLeft(data, width, align) ==
    LET n == chars_count(data)
    IN IF n >= width THEN data
       ELSE CASE align = "Center" -> Pad(data, (width - n) \div 2, (width - n + 1) \div 2)
              [] OTHER -> Pad(data, 0, width - n)

cell(data, width, align) ==
    LET n == chars_count(data)
        padding == width - n
        pre == CASE align = "Left" -> 0
                 [] align = "Center" -> padding \div 2
                 [] align = "Right" -> padding
        post == CASE align = "Left" -> padding
                  [] align = "Center" -> (padding + 1) \div 2
                  [] align = "Right" -> 0
    IN IF n >= width THEN data ELSE Pad(data, pre, post)

Separator == <<" ", "|", " ">>

RECURSIVE FormatCells(_, _, _, _, _)
FormatCells(row, w, a, T, i) ==
    IF i > Len(row.content) THEN <<>>
    ELSE Separator \o cell(str_ref(T, row.content[i]), w.content[i], a.content[i])
         \o FormatCells(row, w, a, T, i + 1)

FormatRow_fmt(row, w, a, T) ==
    cell(str_ref(T, row.header), w.header, a.header) \o FormatCells(row, w, a, T, 1)

(* ---------------------------- Table ------------------------------------ *)

Newline == <<"\n">>

RECURSIVE FormatContent(_, _)
FormatContent(t, k) ==
    IF k > Len(t.content) THEN <<>>
    ELSE FormatRow_fmt(t.content[k], t.widths, t.alignments, "str") \o Newline
         \o FormatContent(t, k + 1)

\* Table::fmt writing the marker line before the header line
Table_fmtMarkerFirst(t) ==
    FormatRow_fmt(t.alignments, t.widths, t.alignments, "Alignment") \o Newline
    \o FormatRow_fmt(t.header, t.widths, t.alignments, "str") \o Newline
    \o FormatContent(t, 1)

Table_fmt(t) ==
    FormatRow_fmt(t.header, t.widths, t.alignments, "str") \o Newline
    \o FormatRow_fmt(t.alignments, t.widths, t.alignments, "Alignment") \o Newline
    \o FormatContent(t, 1)

(* ---------------------------- Builder ---------------------------------- *)

\* update_widths that replaces the running widths
update_widthsReplace(w) == widths' = w

update_widths(w) == widths' = RowMax(widths, w)

Fault(op) ==
    /\ pc' = "faulted"
    /\ call' = op
    /\ UNCHANGED <<WIDTH, header, alignments, content, widths, aligned, table, arg, out>>

Init ==
    /\ WIDTH \in WidthChoices
    /\ header = None
    /\ alignments = None
    /\ content = <<>>
    /\ widths = [header |-> 0, content |-> [i \in 1..WIDTH |-> 0]]
    /\ aligned = "none"
    /\ table = None
    /\ pc = "building"
    /\ call = "new"
    /\ arg = <<>>
    /\ out = <<>>

Header(h) ==
    /\ pc = "building"
    /\ IF header # None
       THEN Fault("header")
       ELSE /\ update_widths(RowWidths(h, "str"))
            /\ header' = Some(h)
            /\ call' = "header"
            /\ UNCHANGED <<WIDTH, alignments, content, aligned, table, pc, arg, out>>

\* alignments without its assertion
AlignmentsUnchecked(a) ==
    /\ pc = "building"
    /\ update_widths(RowWidths(a, "Alignment"))
    /\ alignments' = Some(a)
    /\ aligned' = "alignments"
    /\ call' = "alignments"
    /\ UNCHANGED <<WIDTH, header, content, table, pc, arg, out>>

Alignments(a) ==
    /\ pc = "building"
    /\ IF alignments # None
       THEN Fault("alignments")
       ELSE /\ update_widths(RowWidths(a, "Alignment"))
            /\ alignments' = Some(a)
            /\ aligned' = "alignments"
            /\ call' = "alignments"
            /\ UNCHANGED <<WIDTH, header, content, table, pc, arg, out>>

DefaultAlignments ==
    /\ pc = "building"
    /\ IF alignments # None
       THEN Fault("default_alignments")
       ELSE /\ alignments' = Some(default_row(WIDTH))
            /\ aligned' = "default_alignments"
            /\ call' = "default_alignments"
            /\ UNCHANGED <<WIDTH, header, content, widths, table, pc, arg, out>>

Row(r) ==
    /\ pc = "building"
    /\ Len(content) < MaxRows
    /\ update_widths(RowWidths(r, "str"))
    /\ content' = Append(content, r)
    /\ call' = "row"
    /\ UNCHANGED <<WIDTH, header, alignments, aligned, table, pc, arg, out>>

Finish ==
    /\ pc = "building"
    /\ IF header = None
       THEN Fault("finish")
       ELSE /\ table' = Some([header |-> unwrap(header),
                              alignments |-> IF alignments # None THEN unwrap(alignments)
                                             ELSE default_row(WIDTH),
                              content |-> content,
                              widths |-> widths])
            /\ pc' = "finished"
            /\ call' = "finish"
            /\ UNCHANGED <<WIDTH, header, alignments, content, widths, aligned, arg, out>>

Fmt ==
    /\ pc = "finished"
    /\ out' = Table_fmt(unwrap(table))
    /\ call' = "fmt"
    /\ UNCHANGED <<WIDTH, header, alignments, content, widths, aligned, table, pc, arg>>

Next ==
    \/ \E h \in Rows(WIDTH, HeaderLabels, HeaderTexts) : Header(h)
    \/ \E a \in Rows(WIDTH, Alignment, Alignment) : Alignments(a)
    \/ DefaultAlignments
    \/ \E r \in Rows(WIDTH, RowLabels, CellTexts) : Row(r)
    \/ Finish
    \/ Fmt

Spec == Init /\ [][Next]_vars

(* ------------------ FormatRow::fmt::cell on its own --------------------- *)

CellAlphabet == {"a", "U+00E9"}

InitCell ==
    /\ WIDTH = 1
    /\ header = None
    /\ alignments = None
    /\ content = <<>>
    /\ widths = [header |-> 0, content |-> [i \in 1..WIDTH |-> 0]]
    /\ aligned = "none"
    /\ table = None
    /\ pc = "cell"
    /\ call = "new"
    /\ arg \in [data : SeqsUpTo(CellAlphabet, MaxTextLen),
                width : 0..MaxCellWidth,
                align : Alignment]
    /\ out = <<>>

Cell ==
    /\ pc = "cell"
    /\ call = "new"
    /\ out' = cell(arg.data, arg.width, arg.align)
    /\ call' = "cell"
    /\ UNCHANGED <<WIDTH, header, alignments, content, widths, aligned, table, pc, arg>>

NextCell == Cell

SpecCell == InitCell /\ [][NextCell]_vars

(* ------------------ Alignment::from_str / as_ref on their own ----------- *)

MarkerTexts == SeqsUpTo({"-", ":"}, MaxMarkerLen) \cup {tBogus, tAge}

InitAlign ==
    /\ WIDTH = 1
    /\ header = None
    /\ alignments = None
    /\ content = <<>>
    /\ widths = [header |-> 0, content |-> [i \in 1..WIDTH |-> 0]]
    /\ aligned = "none"
    /\ table = None
    /\ pc = "align"
    /\ call = "new"
    /\ arg \in [kind : {"str"}, val : MarkerTexts] \cup [kind : {"Alignment"}, val : Alignment]
    /\ out = <<>>

\* s.parse::<Alignment>() on a caller's text
FromStr ==
    /\ pc = "align"
    /\ call = "new"
    /\ arg.kind = "str"
    /\ out' = from_str(arg.val)
    /\ call' = "from_str"
    /\ UNCHANGED <<WIDTH, header, alignments, content, widths, aligned, table, pc, arg>>

\* a.as_ref() on a caller's alignment
AsRef ==
    /\ pc = "align"
    /\ call = "new"
    /\ arg.kind = "Alignment"
    /\ out' = as_ref(arg.val)
    /\ call' = "as_ref"
    /\ UNCHANGED <<WIDTH, header, alignments, content, widths, aligned, table, pc, arg>>

\* a.as_ref().parse::<Alignment>(): the marker just produced is parsed back
Reparse ==
    /\ pc = "align"
    /\ call = "as_ref"
    /\ out' = from_str(out)
    /\ call' = "reparse"
    /\ UNCHANGED <<WIDTH, header, alignments, content, widths, aligned, table, pc, arg>>

NextAlign ==
    \/ FromStr
    \/ AsRef
    \/ Reparse

SpecAlign == InitAlign /\ [][NextAlign]_vars

(* ======================================================================= *)
(* Properties                                                              *)
(* ======================================================================= *)

Largest(S) == CHOOSE m \in S : \A x \in S : x <= m

Covers(w, l) ==
    /\ w.header >= l.header
    /\ \A i \in DOMAIN w.content : w.content[i] >= l.content[i]

RECURSIVE CountChar(_, _)
CountChar(s, c) ==
    IF s = <<>> THEN 0
    ELSE (IF Head(s) = c THEN 1 ELSE 0) + CountChar(Tail(s), c)

\* the text t placed in a field of w characters (w >= number of characters of t)
Padded(t, w, a) ==
    LET gap == w - Len(t)
        lead == CASE a = "Left" -> 0
                  [] a = "Right" -> gap
                  [] a = "Center" -> gap \div 2
    IN [i \in 1..w |-> IF i > lead /\ i <= lead + Len(t) THEN t[i - lead] ELSE " "]

Field(t, w, a) == IF Len(t) >= w THEN t ELSE Padded(t, w, a)

\* C1: in every table produced by finish, every slot of Widths is >= the text
\* length of the corresponding cell of the header row, of the alignment-marker
\* row and of every content row (alignments defaulted or not).
C1_WidthsCoverEveryRow ==
    pc = "finished" =>
        LET t == unwrap(table)
        IN /\ Covers(t.widths, RowWidths(t.header, "str"))
           /\ Covers(t.widths, RowWidths(t.alignments, "Alignment"))
           /\ \A k \in 1..Len(t.content) :
                  Covers(t.widths, RowWidths(t.content[k], "str"))

\* C2: a builder call faults exactly when it is a misuse: a second header(),
\* a second alignment-setting call (whichever of alignments() and
\* default_alignments() came first and comes second), or finish() without a
\* header; row() never faults.
C2_MisuseFaultsExactly ==
    [][pc = "building" =>
          /\ (call' = "header" => (pc' = "faulted" <=> header # None))
          /\ \A first \in {"none", "alignments", "default_alignments"} :
             \A second \in {"alignments", "default_alignments"} :
                 (aligned = first /\ call' = second)
                     => (pc' = "faulted" <=> first # "none")
          /\ (call' = "finish" => (pc' = "faulted" <=> header = None))
          /\ (call' = "row" => pc' = "building")]_vars

C2_Witness ==
    /\ pc = "faulted"
    /\ call = "alignments"
    /\ aligned = "default_alignments"
    /\ header # None

\* C5: finish() on a builder with a header and no alignment call does not
\* fault and yields label = Left, every data column = Right; a builder on
\* which an alignment row was set yields exactly that row.
C5_LazyDefaultAlignments ==
    /\ (call = "finish" /\ header # None) => pc = "finished"
    /\ pc = "finished" =>
          /\ aligned = "none" =>
                 /\ alignments = None
                 /\ unwrap(table).alignments.header = "Left"
                 /\ DOMAIN unwrap(table).alignments.content = 1..WIDTH
                 /\ \A i \in 1..WIDTH : unwrap(table).alignments.content[i] = "Right"
          /\ alignments # None => unwrap(table).alignments = unwrap(alignments)

C5_Witness ==
    /\ pc = "finished"
    /\ aligned = "none"
    /\ WIDTH = 2
    /\ Len(content) = 1

\* C9: the running Widths start at zero; header, alignments,
\* default_alignments and row never lower a slot; after header, alignments or
\* row each slot is the larger of its old value and the length of the call's
\* cell in that column; finish copies the running Widths into the table.
C9_Folded(old, new, l) ==
    /\ new.header = Largest({old.header, l.header})
    /\ DOMAIN new.content = 1..WIDTH
    /\ \A i \in 1..WIDTH : new.content[i] = Largest({old.content[i], l.content[i]})

C9_RunningWidths ==
    /\ (call = "new" /\ pc = "building") =>
           (widths.header = 0 /\ \A i \in 1..WIDTH : widths.content[i] = 0)
    /\ [][(pc = "building" /\ pc' # "faulted") =>
            /\ Covers(widths', widths)
            /\ call' = "header" =>
                   C9_Folded(widths, widths', RowWidths(unwrap(header'), "str"))
            /\ call' = "alignments" =>
                   C9_Folded(widths, widths', RowWidths(unwrap(alignments'), "Alignment"))
            /\ call' = "row" =>
                   C9_Folded(widths, widths',
                             RowWidths(content'[Len(content')], "str"))
            /\ call' = "finish" => (unwrap(table').widths = widths /\ widths' = widths)]_vars

C9_Witness ==
    /\ call = "row"
    /\ header # None
    /\ aligned = "alignments"
    /\ widths.header > len(unwrap(header).header)
    /\ widths.content[1] = 5

\* C10: row() never faults, also before header(); the finished table is
\* determined by the header call, the alignment call (or none) and the row
\* calls in their order, whatever the interleaving: its Widths are the
\* column-wise largest length over the rows that were folded.
C10_ColumnLengths(i) ==
    {0}
    \cup {IF i = 0 THEN len(unwrap(header).header) ELSE len(unwrap(header).content[i])}
    \cup (IF aligned = "alignments"
          THEN {IF i = 0 THEN len(as_ref(unwrap(alignments).header))
                ELSE len(as_ref(unwrap(alignments).content[i]))}
          ELSE {})
    \cup {IF i = 0 THEN len(content[k].header) ELSE len(content[k].content[i]) :
              k \in 1..Len(content)}

C10_OrderIndependent ==
    /\ [](pc = "finished" =>
           LET t == unwrap(table)
           IN /\ t.header = unwrap(header)
              /\ t.alignments = (IF aligned = "alignments" THEN unwrap(alignments)
                                 ELSE [header |-> "Left", content |-> [i \in 1..WIDTH |-> "Right"]])
              /\ t.content = content
              /\ t.widths.header = Largest(C10_ColumnLengths(0))
              /\ \A i \in 1..WIDTH : t.widths.content[i] = Largest(C10_ColumnLengths(i)))
    /\ [][call' = "row" =>
            /\ pc' = "building"
            /\ Len(content') = Len(content) + 1
            /\ SubSeq(content', 1, Len(content)) = content
            /\ header' = header
            /\ alignments' = alignments]_vars

C10_Witness ==
    /\ call = "row"
    /\ pc = "building"
    /\ header = None
    /\ alignments = None
    /\ Len(content) = 2

\* the builder calls of the end-to-end example: header ("Name", ["Age"]),
\* default alignments (asked for or left to finish), rows ("Alice", ["30"])
\* and ("Bo", ["7"]), then the table rendered
C3_Example ==
    /\ call = "fmt"
    /\ WIDTH = 1
    /\ unwrap(header) = [header |-> tName, content |-> <<tAge>>]
    /\ aligned \in {"none", "default_alignments"}
    /\ content = <<[header |-> tAlice, content |-> <<t30>>],
                   [header |-> tBo, content |-> <<t7>>]>>

C3_LinesAsClaimed ==
    <<"N", "a", "m", "e", " ", " ", "|", " ", "A", "g", "e">> \o <<"\n">>
    \o <<"-", "-", "-", " ", " ", " ", "|", " ", "-", "-", "-", ":">> \o <<"\n">>
    \o <<"A", "l", "i", "c", "e", " ", "|", " ", "3", "0">> \o <<"\n">>
    \o <<"B", "o", " ", " ", " ", " ", "|", " ", "7">> \o <<"\n">>

C3_LinesRendered ==
    <<"N", "a", "m", "e", " ", " ", "|", " ", "A", "g", "e">> \o <<"\n">>
    \o <<"-", "-", "-", " ", " ", " ", "|", " ", "-", "-", "-", ":">> \o <<"\n">>
    \o <<"A", "l", "i", "c", "e", " ", "|", " ", " ", "3", "0">> \o <<"\n">>
    \o <<"B", "o", " ", " ", " ", " ", "|", " ", " ", " ", "7">> \o <<"\n">>

\* C3 as stated: the example's table has widths label = 5, col0 = 2 and renders
\* the lines "Name  | Age", "---   | ---:", "Alice | 30", "Bo    | 7".
C3_AsClaimed ==
    C3_Example =>
        /\ unwrap(table).widths = [header |-> 5, content |-> <<2>>]
        /\ out = C3_LinesAsClaimed

\* C3 amended: the example's table has widths label = 5, col0 = 3 (the header
\* cell "Age") and renders the lines "Name  | Age", "---   | ---:",
\* "Alice |  30", "Bo    |   7", in that order.
C3_EndToEnd ==
    C3_Example =>
        /\ unwrap(table).widths = [header |-> 5, content |-> <<3>>]
        /\ out = C3_LinesRendered

C3_Witness == C3_Example /\ aligned = "default_alignments" /\ Len(out) > 0

\* C4: rendering a table with k content rows emits k + 2 newline-terminated
\* lines: the header line, the marker line, then the content rows in call
\* order; each line is the padded label followed, per data column in index
\* order, by " | " and the padded cell, so it has WIDTH separators.
RECURSIVE C4_Cells(_, _, _, _)
C4_Cells(texts, w, a, i) ==
    IF i > Len(texts) THEN <<>>
    ELSE <<" ", "|", " ">> \o Field(texts[i], w.content[i], a.content[i])
         \o C4_Cells(texts, w, a, i + 1)

C4_Line(label, texts, w, a) == Field(label, w.header, a.header) \o C4_Cells(texts, w, a, 1)

C4_Lines(t) ==
    <<C4_Line(t.header.header, t.header.content, t.widths, t.alignments),
      C4_Line(as_ref(t.alignments.header),
              [i \in 1..WIDTH |-> as_ref(t.alignments.content[i])],
              t.widths, t.alignments)>>
    \o [k \in 1..Len(t.content) |->
            C4_Line(t.content[k].header, t.content[k].content, t.widths, t.alignments)]

RECURSIVE C4_Join(_)
C4_Join(ls) == IF ls = <<>> THEN <<>> ELSE Head(ls) \o <<"\n">> \o C4_Join(Tail(ls))

C4_RenderedLines ==
    call = "fmt" =>
        LET ls == C4_Lines(unwrap(table))
        IN /\ Len(ls) = Len(content) + 2
           /\ out = C4_Join(ls)
           /\ CountChar(out, "\n") = Len(content) + 2
           /\ out[Len(out)] = "\n"
           /\ \A j \in 1..Len(ls) : CountChar(ls[j], "|") = WIDTH

C4_Witness ==
    /\ call = "fmt"
    /\ WIDTH = 2
    /\ Len(content) = 2
    /\ content[1] # content[2]
    /\ aligned = "alignments"
    /\ unwrap(alignments).content = <<"Center", "Left">>

\* C6: for every text of L characters, every width W and every alignment, the
\* rendered cell has max(L, W) characters and holds the text unmodified, the
\* rest being spaces; when L > W the cell is the text itself, neither
\* truncated nor padded.
C6_PaddedLength ==
    call = "cell" =>
        LET L == Len(arg.data)
            W == arg.width
        IN /\ Len(out) = Largest({L, W})
           /\ \E lead \in 0..(Len(out) - L) :
                  /\ SubSeq(out, lead + 1, lead + L) = arg.data
                  /\ \A i \in 1..Len(out) : (i <= lead \/ i > lead + L) => out[i] = " "
           /\ L > W => out = arg.data

C6_Witness ==
    /\ call = "cell"
    /\ Len(arg.data) = 3
    /\ arg.width = 2
    /\ arg.align = "Center"

\* C7: for a text of L characters in a width W >= L, Left emits the text then
\* W-L spaces, Right emits W-L spaces then the text, Center emits
\* floor((W-L)/2) spaces, the text, then ceil((W-L)/2) spaces.
C7_PaddingPlacement ==
    (call = "cell" /\ arg.width >= Len(arg.data)) =>
        LET gap == arg.width - Len(arg.data)
            floor == CHOOSE q \in 0..gap : 2 * q <= gap /\ gap < 2 * q + 2
            ceil == gap - floor
        IN /\ arg.align = "Left" => out = arg.data \o Spaces(gap)
           /\ arg.align = "Right" => out = Spaces(gap) \o arg.data
           /\ arg.align = "Center" => out = Spaces(floor) \o arg.data \o Spaces(ceil)

C7_Witness ==
    /\ call = "cell"
    /\ arg.align = "Center"
    /\ Len(arg.data) = 2
    /\ arg.width = 5
    /\ out[1] = " "
    /\ out[2] # " "

\* C8: parse accepts exactly "---" and ":---" (Left), ":---:" (Center) and
\* "---:" (Right) and returns a failure value for every other text; marker(a)
\* is one of "---", ":---:", "---:", never ":---"; parse(marker(a)) = a.
C8_Accepted ==
    (<<"-", "-", "-">> :> "Left") @@ (<<":", "-", "-", "-">> :> "Left")
    @@ (<<":", "-", "-", "-", ":">> :> "Center") @@ (<<"-", "-", "-", ":">> :> "Right")

C8_ParseMarkerClosed ==
    /\ call = "from_str" =>
           IF arg.val \in DOMAIN C8_Accepted
           THEN out = <<"Ok", C8_Accepted[arg.val]>>
           ELSE out = <<"Err">>
    /\ call = "as_ref" =>
           /\ out \in {<<"-", "-", "-">>, <<":", "-", "-", "-", ":">>, <<"-", "-", "-", ":">>}
           /\ out # <<":", "-", "-", "-">>
    /\ call = "reparse" => out = <<"Ok", arg.val>>

C8_Witness ==
    /\ call = "reparse"
    /\ arg.val = "Left"
    /\ out = <<"Ok", "Left">>

====
